---- MODULE Spec2Model ----
(***************************************************************************)
(* Job orchestration core of youtube-to-epub:                              *)
(*   - ProgressService (app/services/progress_service.py): the job         *)
(*     registry and the progress broadcast,                                *)
(*   - run_conversion (app/api/routes.py): the five-stage pipeline,        *)
(*   - generate_all_chapter_summaries (app/services/                       *)
(*     summarization_service.py): the semaphore-bounded fan-out,           *)
(*   - detect_chapters (app/services/chapter_service.py) with the          *)
(*     transcript selection of app/services/youtube_service.py.            *)
(*                                                                         *)
(* The specifications share the variables:                                 *)
(*   Spec         one job driven by start_conversion / run_conversion and  *)
(*                the chapter tasks that asyncio.gather started;           *)
(*   SpecFair     Spec with the event loop's fairness;                     *)
(*   SpecApi      the ProgressService methods that write a job, called in  *)
(*                any order by a client;                                   *)
(*   SpecDownload SpecApi with the download route;                         *)
(*   SpecSinks    the ProgressService with subscribe and unsubscribe, job  *)
(*                ids created once each, as start_conversion does;         *)
(*   SpecRecreate SpecSinks with create_job called for ids in use;         *)
(*   SpecWatch    one conversion with queues subscribed at any moment;     *)
(*   SpecStream   one conversion with get_progress streams;                *)
(*   SpecObserve  get_progress streams over jobs a client writes in any    *)
(*                order;                                                   *)
(*   SpecDetach   one conversion whose observers subscribe and             *)
(*                unsubscribe at any moment;                               *)
(*   SpecChapters detect_chapters applied to the metadata and transcript   *)
(*                held in locals, from the state InitChapters.             *)
(*                                                                         *)
(* asyncio runs every coroutine without preemption between two awaits      *)
(* that really suspend, so one action is one such run-to-suspension step.  *)
(* queue.put on an unbounded asyncio.Queue never suspends, so a            *)
(* ProgressService call is one atomic step.                                *)
(*                                                                         *)
(* published is the sequence of ProgressUpdate objects that                *)
(* _notify_subscribers built, one per update_progress, set_error or        *)
(* set_completed call on a known job: what any sink subscribed for the     *)
(* whole time receives.  A queue is a number, its place in queues; a job's *)
(* subscribers list holds such numbers.                                    *)
(*                                                                         *)
(* An async generator is suspended at each yield, so event_generator's     *)
(* break and finally after the last update are a step of their own.        *)
(*                                                                         *)
(* Optional[str] is a sequence of length <= 1: None is <<>>, a text s is   *)
(* <<s>>.  sub_progress is a fraction <<num, den>>; the progress           *)
(* arithmetic is exact.  For the fractions used here (those of             *)
(* SubProgressValues, and 0.3 + 0.7*c/t for t <= 6 with the                *)
(* generating_summaries weights) IEEE-754 double arithmetic followed by    *)
(* int() gives the same integer; from t = 7 on it can differ by one        *)
(* (c = 3, t = 7: 63 in double arithmetic, 64 exactly).                    *)
(***************************************************************************)
EXTENDS Integers, Sequences, FiniteSets, TLC

VARIABLES
    jobs,        \* ProgressService._jobs: job_id -> Job
    published,   \* the ProgressUpdate objects _notify_subscribers built, in order
    lastCall,    \* the last ProgressService call and its arguments
    calls,       \* number of update_progress / set_error / set_completed calls made
    pc,          \* position of run_conversion
    exc,         \* exception travelling to run_conversion's except clauses
    chapters,    \* the VideoChapter objects run_conversion holds
    taskState,   \* process_chapter task i: "pending", "running", "done", "raised"
    taskResult,  \* process_chapter task i: index of the chapter object it returned
    permits,     \* asyncio.Semaphore._value
    gatherExc,   \* the first exception set on gather's future, if any
    cbCalls,     \* the (completed, total) arguments passed to progress_callback
    locals,      \* run_conversion's metadata, transcript and epub_path
    queues,      \* the asyncio.Queue objects subscribe created: id -> contents
    observers,   \* the holder of each queue: its job, its position, what it took
    response     \* the status code and body of the last answer of
                 \* download_epub or get_progress

vars == <<jobs, published, lastCall, calls, pc, exc, chapters, taskState,
          taskResult, permits, gatherExc, cbCalls, locals, queues, observers,
          response>>

serviceVars == <<jobs, published, lastCall, calls, queues>>

clientVars == <<observers, response>>

fanoutVars == <<chapters, taskState, taskResult, permits, gatherExc, cbCalls>>

pipelineVars == <<pc, exc, chapters, taskState, taskResult, permits, gatherExc,
                  cbCalls, locals>>

---------------------------------------------------------------------------
(* Bounds of the model *)

MaxChapters == 5

MaxCalls == 2

\* the number of queues subscribe creates in SpecSinks
MaxSinks == 2

\* the number of get_progress streams in SpecStream
MaxObservers == 1

\* the number of subscribed queues in SpecWatch
MaxWatchers == 2

\* the number of chapters in SpecStream and SpecWatch
MaxStreamChapters == 2

\* observers that come and go during one conversion
MaxLeavers == 1

\* segments of a transcript, chapters of a video's metadata, and chapters in
\* an answer of the segmentation model
MaxSegments == 2
MaxBoundaries == 2
MaxAnswerChapters == 2

\* config.py: SHORT_VIDEO_THRESHOLD_MINUTES
SHORT_VIDEO_THRESHOLD_MINUTES == 15

---------------------------------------------------------------------------
(* Constants of the program *)

SemaphoreLimit == 3

None == <<>>

Some(x) == <<x>>

ConversionStatus ==
    {"validating", "fetching_metadata", "fetching_transcript", "detecting_chapters",
     "generating_summaries", "creating_epub", "completed", "failed"}

TerminalStatus == {"completed", "failed"}

PROGRESS_STEPS ==
    [validating           |-> <<0, 5>>,
     fetching_metadata    |-> <<5, 15>>,
     fetching_transcript  |-> <<15, 30>>,
     detecting_chapters   |-> <<30, 40>>,
     generating_summaries |-> <<40, 80>>,
     creating_epub        |-> <<80, 95>>,
     completed            |-> <<100, 100>>]

---------------------------------------------------------------------------
(* Inputs *)

JobIds == {"j1", "j2"}

RunJobId == "j1"

\* the ids a client creates jobs for; "j2" stays unknown to the registry
CreatedIds == {"j1"}

Messages == {"msg"}

ExcTexts == {"", "boom"}

FilePaths == {"/out/a.epub"}

FileNames == {"a.epub"}

Titles == {"Video"}

SegmentCounts == {2}

\* sub_progress values a client passes: 0, 0.3, 0.5, 23/30 and 1.0
SubProgressValues == {<<0, 1>>, <<3, 10>>, <<1, 2>>, <<23, 30>>, <<1, 1>>}

---------------------------------------------------------------------------
(* Job and ProgressUpdate *)

Job(job_id) ==
    [job_id    |-> job_id,
     status    |-> "validating",
     progress  |-> 0,
     message   |-> "Starting conversion...",
     error     |-> None,
     file_path |-> None,
     file_name |-> None,
     subscribers |-> << >>]

ProgressUpdate(job) ==
    [job_id   |-> job.job_id,
     status   |-> job.status,
     progress |-> job.progress,
     message  |-> job.message,
     error    |-> job.error]

\* int(x) for the non-negative rational num/den
IntTrunc(num, den) == num \div den

ProgressOf_NoOffset(status, sub_progress) ==
    IF status \in DOMAIN PROGRESS_STEPS
    THEN LET start == PROGRESS_STEPS[status][1]
             end   == PROGRESS_STEPS[status][2]
         IN  IntTrunc(start * sub_progress[2] + end * sub_progress[1],
                      sub_progress[2])
    ELSE 0

\* round(x) of Python 3 for the non-negative rational num/den (ties to even)
PyRound(num, den) ==
    LET q == num \div den
        r == num % den
    IN  IF 2 * r < den THEN q
        ELSE IF 2 * r > den THEN q + 1
        ELSE IF q % 2 = 0 THEN q ELSE q + 1

ProgressOf_Round(status, sub_progress) ==
    IF status \in DOMAIN PROGRESS_STEPS
    THEN LET start == PROGRESS_STEPS[status][1]
             end   == PROGRESS_STEPS[status][2]
         IN  PyRound(start * sub_progress[2] + (end - start) * sub_progress[1],
                     sub_progress[2])
    ELSE 0

\* job.progress as update_progress computes it from the stage and sub_progress
ProgressOf(status, sub_progress) ==
    IF status \in DOMAIN PROGRESS_STEPS
    THEN LET start == PROGRESS_STEPS[status][1]
             end   == PROGRESS_STEPS[status][2]
         IN  IntTrunc(start * sub_progress[2] + (end - start) * sub_progress[1],
                      sub_progress[2])
    ELSE 0

Range(seq) == {seq[k] : k \in DOMAIN seq}

\* _notify_subscribers that puts the update into every queue there is
NotifySubscribers_AllQueues(job) ==
    /\ published' = Append(published, ProgressUpdate(job))
    /\ queues' = [q \in DOMAIN queues |-> Append(queues[q], ProgressUpdate(job))]

\* _notify_subscribers: builds one ProgressUpdate from the job's current fields
\* and puts it into every queue of job.subscribers
NotifySubscribers(job) ==
    /\ published' = Append(published, ProgressUpdate(job))
    /\ queues' = [q \in DOMAIN queues |->
                     IF q \in Range(job.subscribers)
                     THEN Append(queues[q], ProgressUpdate(job))
                     ELSE queues[q]]

---------------------------------------------------------------------------
(* ProgressService *)

create_job(job_id) ==
    /\ jobs' = [id \in DOMAIN jobs \cup {job_id} |->
                   IF id = job_id THEN Job(job_id) ELSE jobs[id]]
    /\ lastCall' = <<"create_job", job_id>>
    /\ UNCHANGED <<published, calls, queues>>

\* update_progress that makes the record it does not find
update_progress_Upsert(job_id, status, message, sub_progress) ==
    /\ lastCall' = <<"update_progress", job_id, status, message, sub_progress>>
    /\ calls' = calls + 1
    /\ LET old == IF job_id \in DOMAIN jobs THEN jobs[job_id] ELSE Job(job_id)
           job == [old EXCEPT
                      !.status   = status,
                      !.message  = message,
                      !.progress = ProgressOf(status, sub_progress)]
       IN  /\ jobs' = [id \in DOMAIN jobs \cup {job_id} |->
                          IF id = job_id THEN job ELSE jobs[id]]
           /\ NotifySubscribers(job)

update_progress(job_id, status, message, sub_progress) ==
    /\ lastCall' = <<"update_progress", job_id, status, message, sub_progress>>
    /\ calls' = calls + 1
    /\ IF job_id \notin DOMAIN jobs
       THEN UNCHANGED <<jobs, published, queues>>
       ELSE LET job == [jobs[job_id] EXCEPT
                           !.status   = status,
                           !.message  = message,
                           !.progress = ProgressOf(status, sub_progress)]
            IN  /\ jobs' = [jobs EXCEPT ![job_id] = job]
                /\ NotifySubscribers(job)

\* set_error that also puts the progress back to 0
set_error_ResetsProgress(job_id, error) ==
    /\ lastCall' = <<"set_error", job_id, error>>
    /\ calls' = calls + 1
    /\ IF job_id \notin DOMAIN jobs
       THEN UNCHANGED <<jobs, published, queues>>
       ELSE LET job == [jobs[job_id] EXCEPT
                           !.status   = "failed",
                           !.progress = 0,
                           !.error    = Some(error),
                           !.message  = "Error: " \o error]
            IN  /\ jobs' = [jobs EXCEPT ![job_id] = job]
                /\ NotifySubscribers(job)

set_error_NoStatus(job_id, error) ==
    /\ lastCall' = <<"set_error", job_id, error>>
    /\ calls' = calls + 1
    /\ IF job_id \notin DOMAIN jobs
       THEN UNCHANGED <<jobs, published, queues>>
       ELSE LET job == [jobs[job_id] EXCEPT
                           !.error   = Some(error),
                           !.message = "Error: " \o error]
            IN  /\ jobs' = [jobs EXCEPT ![job_id] = job]
                /\ NotifySubscribers(job)

set_error(job_id, error) ==
    /\ lastCall' = <<"set_error", job_id, error>>
    /\ calls' = calls + 1
    /\ IF job_id \notin DOMAIN jobs
       THEN UNCHANGED <<jobs, published, queues>>
       ELSE LET job == [jobs[job_id] EXCEPT
                           !.status  = "failed",
                           !.error   = Some(error),
                           !.message = "Error: " \o error]
            IN  /\ jobs' = [jobs EXCEPT ![job_id] = job]
                /\ NotifySubscribers(job)

set_completed(job_id, file_path, file_name) ==
    /\ lastCall' = <<"set_completed", job_id, file_path, file_name>>
    /\ calls' = calls + 1
    /\ IF job_id \notin DOMAIN jobs
       THEN UNCHANGED <<jobs, published, queues>>
       ELSE LET job == [jobs[job_id] EXCEPT
                           !.status    = "completed",
                           !.progress  = 100,
                           !.message   = "Conversion complete!",
                           !.file_path = Some(file_path),
                           !.file_name = Some(file_name)]
            IN  /\ jobs' = [jobs EXCEPT ![job_id] = job]
                /\ NotifySubscribers(job)

get_job(job_id) ==
    IF job_id \in DOMAIN jobs THEN Some(jobs[job_id]) ELSE None

\* the position of the first occurrence of queue in the list subscribers
IndexOf(subscribers, queue) ==
    CHOOSE k \in DOMAIN subscribers :
        /\ subscribers[k] = queue
        /\ \A m \in 1..(k - 1) : subscribers[m] # queue

\* list.remove(queue): the list without the first occurrence of queue
Remove(subscribers, queue) ==
    LET k == IndexOf(subscribers, queue)
    IN  SubSeq(subscribers, 1, k - 1) \o SubSeq(subscribers, k + 1, Len(subscribers))

\* the asyncio.Queue object a call of subscribe constructs
NewQueue == Len(queues) + 1

\* subscribe: the value returned is the third element of lastCall
subscribe(job_id) ==
    /\ IF job_id \notin DOMAIN jobs
       THEN /\ lastCall' = <<"subscribe", job_id, None>>
            /\ UNCHANGED <<jobs, queues>>
       ELSE /\ lastCall' = <<"subscribe", job_id, Some(NewQueue)>>
            /\ queues' = Append(queues, << >>)
            /\ jobs' = [jobs EXCEPT ![job_id].subscribers = Append(@, NewQueue)]
    /\ UNCHANGED <<published, calls>>

\* unsubscribe without its membership test: list.remove raises ValueError for
\* a queue that is not in the list, and None has no attribute subscribers
unsubscribe_Unguarded(job_id, queue) ==
    /\ IF job_id \notin DOMAIN jobs
       THEN /\ lastCall' = <<"unsubscribe", job_id, queue, Some("AttributeError")>>
            /\ UNCHANGED jobs
       ELSE IF queue \notin Range(jobs[job_id].subscribers)
       THEN /\ lastCall' = <<"unsubscribe", job_id, queue, Some("ValueError")>>
            /\ UNCHANGED jobs
       ELSE /\ lastCall' = <<"unsubscribe", job_id, queue, None>>
            /\ jobs' = [jobs EXCEPT ![job_id].subscribers = Remove(@, queue)]
    /\ UNCHANGED <<published, calls, queues>>

\* an unsubscribe that deletes the job once its last subscriber has left
unsubscribe_DropsJob(job_id, queue) ==
    /\ lastCall' = <<"unsubscribe", job_id, queue, None>>
    /\ IF job_id \in DOMAIN jobs /\ queue \in Range(jobs[job_id].subscribers)
       THEN IF Len(jobs[job_id].subscribers) = 1
            THEN jobs' = [j \in DOMAIN jobs \ {job_id} |-> jobs[j]]
            ELSE jobs' = [jobs EXCEPT ![job_id].subscribers = Remove(@, queue)]
       ELSE UNCHANGED jobs
    /\ UNCHANGED <<published, calls, queues>>

\* unsubscribe: the fourth element of lastCall is the exception raised, if any
unsubscribe(job_id, queue) ==
    /\ lastCall' = <<"unsubscribe", job_id, queue, None>>
    /\ IF job_id \in DOMAIN jobs /\ queue \in Range(jobs[job_id].subscribers)
       THEN jobs' = [jobs EXCEPT ![job_id].subscribers = Remove(@, queue)]
       ELSE UNCHANGED jobs
    /\ UNCHANGED <<published, calls, queues>>

JobResult(job) ==
    [job_id    |-> job.job_id,
     status    |-> job.status,
     file_path |-> job.file_path,
     file_name |-> job.file_name,
     error     |-> job.error]

get_job_result(job_id) ==
    IF job_id \in DOMAIN jobs THEN Some(JobResult(jobs[job_id])) ELSE None

---------------------------------------------------------------------------
(* start_conversion and run_conversion *)

NoLocals == [title |-> None, segments |-> None, epub_path |-> None]

\* POST /convert: the job is created and run_conversion is scheduled
StartConversion ==
    /\ pc = "idle"
    /\ create_job(RunJobId)
    /\ pc' = "start"
    /\ UNCHANGED <<exc, locals, fanoutVars>>
    /\ UNCHANGED clientVars

\* one update_progress call of run_conversion
Report(from, status, message, sub_progress, to) ==
    /\ pc = from
    /\ update_progress(RunJobId, status, message, sub_progress)
    /\ pc' = to
    /\ UNCHANGED <<exc, locals, fanoutVars>>
    /\ UNCHANGED clientVars

\* a collaborator raises and no except clause catches the exception
Raise_Escapes(from, kind, text) ==
    /\ pc = from
    /\ exc' = Some([kind |-> kind, text |-> text])
    /\ pc' = "escaped"
    /\ UNCHANGED <<serviceVars, locals, fanoutVars>>
    /\ UNCHANGED clientVars

\* a collaborator raises: the exception travels to the except clauses
Raise(from, kind, text) ==
    /\ pc = from
    /\ exc' = Some([kind |-> kind, text |-> text])
    /\ pc' = "except"
    /\ UNCHANGED <<serviceVars, locals, fanoutVars>>
    /\ UNCHANGED clientVars

ReportFetchingMetadata ==
    Report("start", "fetching_metadata", "Fetching video metadata...", <<0, 1>>,
           "get_video_metadata")

GetVideoMetadataReturns ==
    /\ pc = "get_video_metadata"
    /\ \E title \in Titles : locals' = [locals EXCEPT !.title = Some(title)]
    /\ pc' = "report_metadata"
    /\ UNCHANGED <<serviceVars, exc, fanoutVars>>
    /\ UNCHANGED clientVars

GetVideoMetadataRaises ==
    \E e \in ExcTexts :
        Raise("get_video_metadata", "YouTubeServiceError",
              "Failed to fetch video metadata: " \o e)

ReportMetadata ==
    Report("report_metadata", "fetching_metadata", "Found: " \o locals.title[1],
           <<1, 1>>, "report_fetching_transcript")

ReportFetchingTranscript ==
    Report("report_fetching_transcript", "fetching_transcript",
           "Fetching transcript...", <<0, 1>>, "get_transcript")

GetTranscriptReturns ==
    /\ pc = "get_transcript"
    /\ \E n \in SegmentCounts : locals' = [locals EXCEPT !.segments = Some(n)]
    /\ pc' = "report_transcript"
    /\ UNCHANGED <<serviceVars, exc, fanoutVars>>
    /\ UNCHANGED clientVars

GetTranscriptRaises ==
    \E e \in ExcTexts :
        Raise("get_transcript", "YouTubeServiceError",
              "Failed to fetch transcript: " \o e)

ReportTranscript ==
    Report("report_transcript", "fetching_transcript",
           "Transcript loaded (" \o ToString(locals.segments[1]) \o " segments)",
           <<1, 1>>, "report_detecting_chapters")

ReportDetectingChapters ==
    Report("report_detecting_chapters", "detecting_chapters",
           "Detecting chapters...", <<0, 1>>, "detect_chapters")

VideoChapter(i) == [title |-> "chapter " \o ToString(i), summary |-> ""]

\* detect_chapters returns some list of chapters (possibly empty)
DetectChaptersReturns ==
    /\ pc = "detect_chapters"
    /\ \E n \in 0..MaxChapters : chapters' = [i \in 1..n |-> VideoChapter(i)]
    /\ pc' = "report_chapters"
    /\ UNCHANGED <<serviceVars, exc, locals, taskState, taskResult, permits,
                   gatherExc, cbCalls>>
    /\ UNCHANGED clientVars

ReportChapters ==
    Report("report_chapters", "detecting_chapters",
           "Found " \o ToString(Len(chapters)) \o " chapters", <<1, 1>>,
           "report_generating_summaries")

ReportGeneratingSummaries ==
    Report("report_generating_summaries", "generating_summaries",
           "Generating overall summary...", <<0, 1>>, "generate_overall_summary")

GenerateOverallSummaryReturns ==
    /\ pc = "generate_overall_summary"
    /\ pc' = "report_chapter_summaries"
    /\ UNCHANGED <<serviceVars, exc, locals, fanoutVars>>
    /\ UNCHANGED clientVars

GenerateOverallSummaryRaises ==
    \E e \in ExcTexts : Raise("generate_overall_summary", "Exception", e)

ReportChapterSummaries ==
    Report("report_chapter_summaries", "generating_summaries",
           "Generating chapter summaries...", <<3, 10>>,
           "generate_all_chapter_summaries")

---------------------------------------------------------------------------
(* generate_all_chapter_summaries: the fan-out *)

NumChapters == Len(chapters)

InFlight == {i \in DOMAIN taskState : taskState[i] = "running"}

Finished == {i \in DOMAIN taskState : taskState[i] \in {"done", "raised"}}

\* the model's task i is the code's process_chapter(i - 1, chapter)
generate_chapter_summary(chapter) == "summary of " \o chapter.title

\* chapter_progress(completed, total): sub_progress 0.3 + 0.7 * completed / total
chapter_progress(completed, total) ==
    update_progress(RunJobId, "generating_summaries",
                    "Summarizing chapter " \o ToString(completed) \o "/"
                        \o ToString(total) \o "...",
                    <<3 * total + 7 * completed, 10 * total>>)

\* the fan-out with a semaphore of one permit less
GenerateAllChapterSummaries_FewerPermits ==
    /\ pc = "generate_all_chapter_summaries"
    /\ permits' = SemaphoreLimit - 1
    /\ taskState' = [i \in 1..NumChapters |-> "pending"]
    /\ taskResult' = [i \in 1..NumChapters |-> 0]
    /\ gatherExc' = None
    /\ cbCalls' = <<>>
    /\ pc' = "gather"
    /\ UNCHANGED <<serviceVars, exc, locals, chapters>>
    /\ UNCHANGED clientVars

\* the semaphore is created with 3 permits and gather schedules one task a chapter
GenerateAllChapterSummaries ==
    /\ pc = "generate_all_chapter_summaries"
    /\ permits' = SemaphoreLimit
    /\ taskState' = [i \in 1..NumChapters |-> "pending"]
    /\ taskResult' = [i \in 1..NumChapters |-> 0]
    /\ gatherExc' = None
    /\ cbCalls' = <<>>
    /\ pc' = "gather"
    /\ UNCHANGED <<serviceVars, exc, locals, chapters>>
    /\ UNCHANGED clientVars

Acquire_NoLimit(i) ==
    /\ i \in DOMAIN taskState
    /\ taskState[i] = "pending"
    /\ \A k \in 1..(i - 1) : taskState[k] # "pending"
    /\ permits' = permits - 1
    /\ taskState' = [taskState EXCEPT ![i] = "running"]
    /\ UNCHANGED <<serviceVars, pc, exc, locals, chapters, taskResult, gatherExc,
                   cbCalls>>
    /\ UNCHANGED clientVars

\* async with semaphore: task i enters when a permit is free; tasks start, and
\* waiters are woken, in creation order
Acquire(i) ==
    /\ i \in DOMAIN taskState
    /\ taskState[i] = "pending"
    /\ \A k \in 1..(i - 1) : taskState[k] # "pending"
    /\ permits > 0
    /\ permits' = permits - 1
    /\ taskState' = [taskState EXCEPT ![i] = "running"]
    /\ UNCHANGED <<serviceVars, pc, exc, locals, chapters, taskResult, gatherExc,
                   cbCalls>>
    /\ UNCHANGED clientVars

\* generate_chapter_summary returns: the summary is stored, the callback is
\* called with (i + 1, len(chapters)), the permit is released, the task ends
ChapterCompletes(i) ==
    /\ i \in DOMAIN taskState
    /\ taskState[i] = "running"
    /\ chapters' = [chapters EXCEPT
                       ![i].summary = generate_chapter_summary(chapters[i])]
    /\ cbCalls' = Append(cbCalls, <<i, NumChapters>>)
    /\ chapter_progress(i, NumChapters)
    /\ permits' = permits + 1
    /\ taskState' = [taskState EXCEPT ![i] = "done"]
    /\ taskResult' = [taskResult EXCEPT ![i] = i]
    /\ UNCHANGED <<pc, exc, locals, gatherExc>>
    /\ UNCHANGED clientVars

\* a raising operation whose task keeps its permit
ChapterRaises_KeepsPermit(i) ==
    /\ i \in DOMAIN taskState
    /\ taskState[i] = "running"
    /\ taskState' = [taskState EXCEPT ![i] = "raised"]
    /\ \E e \in ExcTexts :
          gatherExc' = IF gatherExc = None
                       THEN Some([kind |-> "Exception", text |-> e])
                       ELSE gatherExc
    /\ UNCHANGED <<serviceVars, pc, exc, locals, chapters, taskResult, cbCalls,
                   permits>>
    /\ UNCHANGED clientVars

\* generate_chapter_summary raises: the permit is released, the task ends with
\* the exception, and gather's future takes the first such exception
ChapterRaises(i) ==
    /\ i \in DOMAIN taskState
    /\ taskState[i] = "running"
    /\ permits' = permits + 1
    /\ taskState' = [taskState EXCEPT ![i] = "raised"]
    /\ \E e \in ExcTexts :
          gatherExc' = IF gatherExc = None
                       THEN Some([kind |-> "Exception", text |-> e])
                       ELSE gatherExc
    /\ UNCHANGED <<serviceVars, pc, exc, locals, chapters, taskResult, cbCalls>>
    /\ UNCHANGED clientVars

GatherResult_CompletionOrder ==
    [k \in 1..NumChapters |-> chapters[cbCalls[k][1]]]

\* the list gather returns: the tasks' results in the order of the tasks
GatherResult == [k \in 1..NumChapters |-> chapters[taskResult[k]]]

\* every task has returned: run_conversion resumes with the result list
GatherReturns ==
    /\ pc = "gather"
    /\ \A i \in DOMAIN taskState : taskState[i] = "done"
    /\ chapters' = GatherResult
    /\ pc' = "report_creating_epub"
    /\ UNCHANGED <<serviceVars, exc, locals, taskState, taskResult, permits,
                   gatherExc, cbCalls>>
    /\ UNCHANGED clientVars

\* a task has raised: run_conversion resumes with that exception while the
\* other tasks keep running
GatherRaises ==
    /\ pc = "gather"
    /\ gatherExc # None
    /\ exc' = gatherExc
    /\ pc' = "except"
    /\ UNCHANGED <<serviceVars, locals, fanoutVars>>
    /\ UNCHANGED clientVars

---------------------------------------------------------------------------
(* run_conversion, stage 5 and the terminal calls *)

ReportCreatingEpub ==
    Report("report_creating_epub", "creating_epub", "Creating EPUB file...",
           <<0, 1>>, "create_epub")

CreateEpubReturns ==
    /\ pc = "create_epub"
    /\ \E path \in FilePaths, name \in FileNames :
          locals' = [locals EXCEPT !.epub_path = Some(<<path, name>>)]
    /\ pc' = "report_epub_created"
    /\ UNCHANGED <<serviceVars, exc, fanoutVars>>
    /\ UNCHANGED clientVars

CreateEpubRaises ==
    \E e \in ExcTexts : Raise("create_epub", "Exception", e)

ReportEpubCreated ==
    Report("report_epub_created", "creating_epub", "EPUB created successfully",
           <<1, 1>>, "set_completed")

\* set_completed followed by an exception inside the try block
SetCompleted_ThenRaises ==
    /\ pc = "set_completed"
    /\ set_completed(RunJobId, locals.epub_path[1][1], locals.epub_path[1][2])
    /\ exc' = Some([kind |-> "Exception", text |-> "boom"])
    /\ pc' = "except"
    /\ UNCHANGED <<locals, fanoutVars>>
    /\ UNCHANGED clientVars

SetCompleted ==
    /\ pc = "set_completed"
    /\ set_completed(RunJobId, locals.epub_path[1][1], locals.epub_path[1][2])
    /\ pc' = "done"
    /\ UNCHANGED <<exc, locals, fanoutVars>>
    /\ UNCHANGED clientVars

\* the text the except clauses pass to set_error
ErrorText(e) ==
    IF e.kind = "YouTubeServiceError"
    THEN e.text
    ELSE "Conversion failed: " \o e.text

SetError ==
    /\ pc = "except"
    /\ set_error(RunJobId, ErrorText(exc[1]))
    /\ pc' = "done"
    /\ UNCHANGED <<exc, locals, fanoutVars>>
    /\ UNCHANGED clientVars

---------------------------------------------------------------------------
(* Specification of one conversion *)

Init ==
    /\ jobs = << >>
    /\ published = << >>
    /\ lastCall = <<"init">>
    /\ calls = 0
    /\ pc = "idle"
    /\ exc = None
    /\ chapters = << >>
    /\ taskState = << >>
    /\ taskResult = << >>
    /\ permits = 0
    /\ gatherExc = None
    /\ cbCalls = << >>
    /\ locals = NoLocals
    /\ queues = << >>
    /\ observers = << >>
    /\ response = <<0, "no response">>

Next ==
    \/ StartConversion
    \/ ReportFetchingMetadata
    \/ GetVideoMetadataReturns
    \/ GetVideoMetadataRaises
    \/ ReportMetadata
    \/ ReportFetchingTranscript
    \/ GetTranscriptReturns
    \/ GetTranscriptRaises
    \/ ReportTranscript
    \/ ReportDetectingChapters
    \/ DetectChaptersReturns
    \/ ReportChapters
    \/ ReportGeneratingSummaries
    \/ GenerateOverallSummaryReturns
    \/ GenerateOverallSummaryRaises
    \/ ReportChapterSummaries
    \/ GenerateAllChapterSummaries
    \/ \E i \in 1..MaxChapters : Acquire(i)
    \/ \E i \in 1..MaxChapters : ChapterCompletes(i)
    \/ \E i \in 1..MaxChapters : ChapterRaises(i)
    \/ GatherReturns
    \/ GatherRaises
    \/ ReportCreatingEpub
    \/ CreateEpubReturns
    \/ CreateEpubRaises
    \/ ReportEpubCreated
    \/ SetCompleted
    \/ SetError

Spec == Init /\ [][Next]_vars

\* the event loop runs every task that is ready, and every collaborator call
\* returns or raises: a step that stays possible is taken
SpecFair == Spec /\ WF_vars(Next)

---------------------------------------------------------------------------
(* Specification of the ProgressService called by any client *)

ApiCreateJob ==
    /\ \E job_id \in CreatedIds : create_job(job_id)
    /\ UNCHANGED <<pipelineVars, clientVars>>

ApiUpdateProgress ==
    /\ calls < MaxCalls
    /\ \E job_id \in JobIds, status \in ConversionStatus, message \in Messages,
          sub_progress \in SubProgressValues :
          update_progress(job_id, status, message, sub_progress)
    /\ UNCHANGED <<pipelineVars, clientVars>>

ApiSetError ==
    /\ calls < MaxCalls
    /\ \E job_id \in JobIds, error \in ExcTexts : set_error(job_id, error)
    /\ UNCHANGED <<pipelineVars, clientVars>>

ApiSetCompleted ==
    /\ calls < MaxCalls
    /\ \E job_id \in JobIds, file_path \in FilePaths, file_name \in FileNames :
          set_completed(job_id, file_path, file_name)
    /\ UNCHANGED <<pipelineVars, clientVars>>

NextApi ==
    \/ ApiCreateJob
    \/ ApiUpdateProgress
    \/ ApiSetError
    \/ ApiSetCompleted

SpecApi == Init /\ [][NextApi]_vars

---------------------------------------------------------------------------
(* GET /convert/{job_id}/download *)

\* download_epub that looks at the stored path only, not at the status
download_epub_NoStatusCheck(job_id, exists) ==
    LET result == get_job_result(job_id)
    IN  /\ response' =
              IF result = None
              THEN <<404, "Job not found">>
              ELSE IF \/ result[1].file_path = None
                      \/ result[1].file_path = Some("")
                      \/ ~exists
              THEN <<404, "File not found">>
              ELSE <<200, result[1].file_path[1], result[1].file_name[1]>>
        /\ UNCHANGED <<serviceVars, pipelineVars, observers>>

\* download_epub; exists is what Path(result.file_path).exists() answers
download_epub(job_id, exists) ==
    LET result == get_job_result(job_id)
    IN  /\ response' =
              IF result = None
              THEN <<404, "Job not found">>
              ELSE IF result[1].status = "failed"
              THEN <<400, IF result[1].error = None \/ result[1].error = Some("")
                          THEN "Conversion failed"
                          ELSE result[1].error[1]>>
              ELSE IF result[1].status # "completed"
              THEN <<400, "Conversion not complete">>
              ELSE IF \/ result[1].file_path = None
                      \/ result[1].file_path = Some("")
                      \/ ~exists
              THEN <<404, "File not found">>
              ELSE <<200, result[1].file_path[1], result[1].file_name[1]>>
        /\ UNCHANGED <<serviceVars, pipelineVars, observers>>

DownloadEpub ==
    \E job_id \in JobIds, exists \in BOOLEAN : download_epub(job_id, exists)

---------------------------------------------------------------------------
(* Specification of the ProgressService with subscribers: any client creates
   jobs, subscribes, unsubscribes and publishes *)

SinkStatuses == {"generating_summaries"}

SinkSubProgress == {<<1, 2>>}

SinkErrors == {"boom"}

\* what the holder of a queue knows: the job it subscribed to, where it stands
\* (subscribed, streaming, closing, ended, disconnected, unsubscribed), the
\* initial state it was sent, the updates it took from the queue and whether a
\* keepalive was sent since the last of them
Observer(job_id) ==
    [job_id |-> job_id, state |-> "subscribed", initial |-> None,
     received |-> << >>, pinged |-> FALSE]

\* create_job as start_conversion calls it: with an id no job has yet
ClientCreateJob ==
    /\ \E job_id \in JobIds : job_id \notin DOMAIN jobs /\ create_job(job_id)
    /\ UNCHANGED <<pipelineVars, clientVars>>

\* create_job called with the id of a job that exists
ClientRecreateJob ==
    /\ \E job_id \in JobIds : job_id \in DOMAIN jobs /\ create_job(job_id)
    /\ UNCHANGED <<pipelineVars, clientVars>>

ClientSubscribe ==
    /\ Len(queues) < MaxSinks
    /\ \E job_id \in JobIds :
          /\ subscribe(job_id)
          /\ observers' = IF job_id \in DOMAIN jobs
                          THEN Append(observers, Observer(job_id))
                          ELSE observers
    /\ UNCHANGED <<pipelineVars, response>>

ClientUnsubscribe ==
    /\ \E job_id \in JobIds, queue \in DOMAIN queues :
          /\ unsubscribe(job_id, queue)
          /\ observers' = IF observers[queue].job_id = job_id
                          THEN [observers EXCEPT ![queue].state = "unsubscribed"]
                          ELSE observers
    /\ UNCHANGED <<pipelineVars, response>>

ClientUpdateProgress ==
    /\ calls < MaxCalls
    /\ \E job_id \in JobIds, status \in SinkStatuses, message \in Messages,
          sub_progress \in SinkSubProgress :
          update_progress(job_id, status, message, sub_progress)
    /\ UNCHANGED <<pipelineVars, clientVars>>

ClientSetError ==
    /\ calls < MaxCalls
    /\ \E job_id \in JobIds, error \in SinkErrors : set_error(job_id, error)
    /\ UNCHANGED <<pipelineVars, clientVars>>

ClientSetCompleted ==
    /\ calls < MaxCalls
    /\ \E job_id \in JobIds, file_path \in FilePaths, file_name \in FileNames :
          set_completed(job_id, file_path, file_name)
    /\ UNCHANGED <<pipelineVars, clientVars>>

NextSinks ==
    \/ ClientCreateJob
    \/ ClientSubscribe
    \/ ClientUnsubscribe
    \/ ClientUpdateProgress
    \/ ClientSetError
    \/ ClientSetCompleted

SpecSinks == Init /\ [][NextSinks]_vars

\* the same clients, which also call create_job with ids that are in use
NextRecreate ==
    \/ NextSinks
    \/ ClientRecreateJob

SpecRecreate == Init /\ [][NextRecreate]_vars

---------------------------------------------------------------------------
(* Specification of the ProgressService with the download route: any client
   creates and updates jobs and asks for the file *)

NextDownload ==
    \/ NextApi
    \/ DownloadEpub

SpecDownload == Init /\ [][NextDownload]_vars

---------------------------------------------------------------------------
(* GET /convert/{job_id}/progress *)

\* get_progress up to the return of the EventSourceResponse
get_progress(job_id) ==
    IF get_job(job_id) = None
    THEN /\ response' = <<404, "Job not found">>
         /\ UNCHANGED <<serviceVars, observers>>
    ELSE /\ subscribe(job_id)
         /\ observers' = Append(observers, Observer(job_id))
         /\ response' = <<200, "event stream">>

GetProgress ==
    /\ Len(queues) < MaxObservers
    /\ \E job_id \in JobIds : get_progress(job_id)
    /\ UNCHANGED pipelineVars

\* the data of the first event: the job's fields when the generator starts
InitialState(job) ==
    [job_id |-> job.job_id, status |-> job.status, progress |-> job.progress,
     message |-> job.message]

\* event_generator runs to its first yield
EventGeneratorStarts(queue) ==
    /\ queue \in DOMAIN observers
    /\ observers[queue].state = "subscribed"
    /\ observers' = [observers EXCEPT
                        ![queue].state = "streaming",
                        ![queue].initial =
                            Some(InitialState(jobs[observers[queue].job_id]))]
    /\ UNCHANGED <<serviceVars, pipelineVars, response>>

\* a loop that goes on reading after a completed or failed update
EventGeneratorGets_NoBreak(queue) ==
    /\ queue \in DOMAIN observers
    /\ observers[queue].state = "streaming"
    /\ queues[queue] # << >>
    /\ queues' = [queues EXCEPT ![queue] = Tail(@)]
    /\ observers' = [observers EXCEPT
                        ![queue].received = Append(@, Head(queues[queue])),
                        ![queue].pinged = FALSE]
    /\ UNCHANGED <<jobs, published, lastCall, calls, pipelineVars, response>>

\* queue.get() returns an update and the generator yields it
EventGeneratorGets(queue) ==
    /\ queue \in DOMAIN observers
    /\ observers[queue].state = "streaming"
    /\ queues[queue] # << >>
    /\ queues' = [queues EXCEPT ![queue] = Tail(@)]
    /\ observers' = [observers EXCEPT
                        ![queue].received = Append(@, Head(queues[queue])),
                        ![queue].pinged = FALSE,
                        ![queue].state =
                            IF Head(queues[queue]).status \in TerminalStatus
                            THEN "closing"
                            ELSE "streaming"]
    /\ UNCHANGED <<jobs, published, lastCall, calls, pipelineVars, response>>

\* resumed after yielding a completed or failed update: break, then finally
EventGeneratorEnds(queue) ==
    /\ queue \in DOMAIN observers
    /\ observers[queue].state = "closing"
    /\ unsubscribe(observers[queue].job_id, queue)
    /\ observers' = [observers EXCEPT ![queue].state = "ended"]
    /\ UNCHANGED <<pipelineVars, response>>

\* wait_for times out after 30 seconds without an update: a ping is yielded
EventGeneratorPings(queue) ==
    /\ queue \in DOMAIN observers
    /\ observers[queue].state = "streaming"
    /\ queues[queue] = << >>
    /\ observers' = [observers EXCEPT ![queue].pinged = TRUE]
    /\ UNCHANGED <<serviceVars, pipelineVars, response>>

\* the client goes away while the generator is suspended: finally runs
ClientDisconnects(queue) ==
    /\ queue \in DOMAIN observers
    /\ observers[queue].state \in {"streaming", "closing"}
    /\ unsubscribe(observers[queue].job_id, queue)
    /\ observers' = [observers EXCEPT ![queue].state = "disconnected"]
    /\ UNCHANGED <<pipelineVars, response>>

---------------------------------------------------------------------------
(* Specification of one conversion with observers of its progress stream *)

\* detect_chapters returns a list of at most MaxStreamChapters chapters
StreamDetectChaptersReturns ==
    /\ pc = "detect_chapters"
    /\ \E n \in 0..MaxStreamChapters : chapters' = [i \in 1..n |-> VideoChapter(i)]
    /\ pc' = "report_chapters"
    /\ UNCHANGED <<serviceVars, exc, locals, taskState, taskResult, permits,
                   gatherExc, cbCalls>>
    /\ UNCHANGED clientVars

\* the steps of Next, with the shorter chapter lists
NextConversion ==
    \/ StartConversion
    \/ ReportFetchingMetadata
    \/ GetVideoMetadataReturns
    \/ GetVideoMetadataRaises
    \/ ReportMetadata
    \/ ReportFetchingTranscript
    \/ GetTranscriptReturns
    \/ GetTranscriptRaises
    \/ ReportTranscript
    \/ ReportDetectingChapters
    \/ StreamDetectChaptersReturns
    \/ ReportChapters
    \/ ReportGeneratingSummaries
    \/ GenerateOverallSummaryReturns
    \/ GenerateOverallSummaryRaises
    \/ ReportChapterSummaries
    \/ GenerateAllChapterSummaries
    \/ \E i \in 1..MaxStreamChapters : Acquire(i)
    \/ \E i \in 1..MaxStreamChapters : ChapterCompletes(i)
    \/ \E i \in 1..MaxStreamChapters : ChapterRaises(i)
    \/ GatherReturns
    \/ GatherRaises
    \/ ReportCreatingEpub
    \/ CreateEpubReturns
    \/ CreateEpubRaises
    \/ ReportEpubCreated
    \/ SetCompleted
    \/ SetError

NextStream ==
    \/ NextConversion
    \/ GetProgress
    \/ \E queue \in 1..MaxObservers : EventGeneratorStarts(queue)
    \/ \E queue \in 1..MaxObservers : EventGeneratorGets(queue)
    \/ \E queue \in 1..MaxObservers : EventGeneratorEnds(queue)
    \/ \E queue \in 1..MaxObservers : EventGeneratorPings(queue)
    \/ \E queue \in 1..MaxObservers : ClientDisconnects(queue)

SpecStream == Init /\ [][NextStream]_vars

---------------------------------------------------------------------------
(* Specification of one conversion with queues subscribed to its job at any
   moment and never read: each queue keeps every update put into it *)

SubscribeDuringRun ==
    /\ Len(queues) < MaxWatchers
    /\ RunJobId \in DOMAIN jobs
    /\ subscribe(RunJobId)
    /\ observers' = Append(observers, Observer(RunJobId))
    /\ UNCHANGED <<pipelineVars, response>>

NextWatch ==
    \/ NextConversion
    \/ SubscribeDuringRun

SpecWatch == Init /\ [][NextWatch]_vars

---------------------------------------------------------------------------
(* Specification of one conversion whose observers come and go: queues are
   subscribed to the job and unsubscribed from it at any moment of the run,
   and the steps of the conversion are scheduled fairly *)

\* the finally of an observer's event_generator, or any other unsubscribe
UnsubscribeDuringRun ==
    /\ \E queue \in DOMAIN queues :
          /\ observers[queue].state = "subscribed"
          /\ unsubscribe(RunJobId, queue)
          /\ observers' = [observers EXCEPT ![queue].state = "unsubscribed"]
    /\ UNCHANGED <<pipelineVars, response>>

\* get_progress subscribes a queue to the job of the run
ObserverArrives ==
    /\ Len(queues) < MaxLeavers
    /\ RunJobId \in DOMAIN jobs
    /\ subscribe(RunJobId)
    /\ observers' = Append(observers, Observer(RunJobId))
    /\ UNCHANGED <<pipelineVars, response>>

NextDetach ==
    \/ NextConversion
    \/ ObserverArrives
    \/ UnsubscribeDuringRun

SpecDetach == Init /\ [][NextDetach]_vars /\ WF_vars(NextConversion)

---------------------------------------------------------------------------
(* Specification of the progress streams over the ProgressService: clients
   create jobs and publish in any order while get_progress streams run *)

NextObserve ==
    \/ ClientCreateJob
    \/ ClientUpdateProgress
    \/ ClientSetError
    \/ ClientSetCompleted
    \/ GetProgress
    \/ \E queue \in 1..MaxObservers : EventGeneratorStarts(queue)
    \/ \E queue \in 1..MaxObservers : EventGeneratorGets(queue)
    \/ \E queue \in 1..MaxObservers : EventGeneratorEnds(queue)
    \/ \E queue \in 1..MaxObservers : EventGeneratorPings(queue)
    \/ \E queue \in 1..MaxObservers : ClientDisconnects(queue)

SpecObserve == Init /\ [][NextObserve]_vars

---------------------------------------------------------------------------
(* Chapter detection: detect_chapters(metadata, transcript) as run_conversion
   calls it.  locals holds the two arguments, the answer of the segmentation
   model once it has been received, and whether the model has been called;
   chapters holds the returned list.  Times are whole seconds; the percentages
   and durations below are chosen so that (p / 100) * duration is a whole
   number that binary floating point computes exactly *)

\* the sequences over S of length at most n
SeqsUpTo(S, n) == UNION {[1..k -> S] : k \in 0..n}

VideoLengths == {180, 899, 900, 1200}
ChapterStarts == {0, 60, 120}
SegmentStarts == {0, 60, 119, 120, 224, 225}
SegmentDurations == {1, 2}
Percents == {0, 25, 50}

\* TranscriptSegment: the text names the segment's place in the transcript
TranscriptSegment(i, shape) ==
    [text |-> "s" \o ToString(i), start |-> shape[1], duration |-> shape[2]]

Transcripts ==
    {[i \in DOMAIN shapes |-> TranscriptSegment(i, shapes[i])] :
        shapes \in SeqsUpTo(SegmentStarts \X SegmentDurations, MaxSegments)}

\* VideoChapter with the fields chapter detection sets
NewVideoChapter(title, start_time, end_time, transcript) ==
    [title |-> title, start_time |-> start_time, end_time |-> end_time,
     transcript |-> transcript, summary |-> ""]

\* get_video_metadata: a chapter ends where the next starts, the last one at
\* the video's length
MetadataChapters(starts, length) ==
    [i \in DOMAIN starts |->
        NewVideoChapter("chapter " \o ToString(i), starts[i],
                        IF i < Len(starts) THEN Some(starts[i + 1])
                                           ELSE Some(length),
                        "")]

\* the chapter start times of a video, in increasing order
StartLists ==
    {starts \in SeqsUpTo(ChapterStarts, MaxBoundaries) :
        \A i \in 1..(Len(starts) - 1) : starts[i] < starts[i + 1]}

VideoMetadatas ==
    {[title |-> "Video", duration |-> length,
      chapters |-> MetadataChapters(starts, length)] :
        length \in VideoLengths, starts \in StartLists}

\* " ".join(texts)
RECURSIVE Join(_)
Join(texts) ==
    IF texts = << >> THEN ""
    ELSE IF Len(texts) = 1 THEN texts[1]
    ELSE texts[1] \o " " \o Join(Tail(texts))

get_transcript_text(segments) ==
    Join([i \in DOMAIN segments |-> segments[i].text])

\* the loop of get_transcript_for_timerange: the list result
RECURSIVE TimerangeResult(_, _, _)
TimerangeResult(segments, start_time, end_time) ==
    IF segments = << >> THEN << >>
    ELSE LET segment == Head(segments)
             segment_end == segment.start + segment.duration
             keep == IF end_time # None
                     THEN segment.start < end_time[1] /\ segment_end > start_time
                     ELSE segment.start >= start_time
         IN (IF keep THEN <<segment.text>> ELSE << >>)
               \o TimerangeResult(Tail(segments), start_time, end_time)

\* a selection that also takes a segment ending exactly at start_time
get_transcript_for_timerange_Touching(segments, start_time, end_time) ==
    Join([i \in DOMAIN
             SelectSeq(segments,
                       LAMBDA g : /\ g.start < end_time[1]
                                  /\ g.start + g.duration >= start_time)
          |-> SelectSeq(segments,
                        LAMBDA g : /\ g.start < end_time[1]
                                   /\ g.start + g.duration >= start_time)[i].text])

\* a selection by the segment's start alone
get_transcript_for_timerange_ByStart(segments, start_time, end_time) ==
    Join([i \in DOMAIN
             SelectSeq(segments,
                       LAMBDA g : g.start < end_time[1] /\ g.start >= start_time)
          |-> SelectSeq(segments,
                        LAMBDA g : g.start < end_time[1]
                                   /\ g.start >= start_time)[i].text])

get_transcript_for_timerange(segments, start_time, end_time) ==
    Join(TimerangeResult(segments, start_time, end_time))

\* the single chapter over the whole video
WholeVideoChapter(metadata, full_transcript) ==
    <<NewVideoChapter(metadata.title, 0, Some(metadata.duration),
                      full_transcript)>>

\* detect_chapters, lines 37-51: one chapter per chapter of the metadata
ChaptersFromMetadata(metadata, transcript) ==
    [i \in DOMAIN metadata.chapters |->
        LET chapter == metadata.chapters[i]
        IN NewVideoChapter(chapter.title, chapter.start_time, chapter.end_time,
                           get_transcript_for_timerange(transcript,
                                                        chapter.start_time,
                                                        chapter.end_time))]

\* a short video is one of at most the threshold
IsShortVideo_AtMost(metadata) ==
    metadata.duration <= SHORT_VIDEO_THRESHOLD_MINUTES * 60

\* metadata.duration / 60 < SHORT_VIDEO_THRESHOLD_MINUTES, without the division
IsShortVideo(metadata) ==
    metadata.duration < SHORT_VIDEO_THRESHOLD_MINUTES * 60

(* The answer of the segmentation model.  The content is the list of parts
   that content.split("```") yields: one part when there is no fence,
   otherwise the fenced part is the second and carries its language tag.
   A part's body is what json.loads makes of it: nothing (invalid JSON), an
   object with some keys, or an array of items; an item is an object with
   the keys it has, start_percent being a number or a string *)

AnswerItems ==
    {[title |-> "T" \o ToString(p), start_percent |-> <<"number", p>>] :
        p \in Percents}
      \cup {[title |-> "T"],
            [title |-> "T", start_percent |-> <<"string", "25">>]}

JsonBodies ==
    {[kind |-> "invalid"],
     [kind |-> "object", keys |-> << >>],
     [kind |-> "object", keys |-> <<"chapters">>]}
      \cup {[kind |-> "array", items |-> items] :
               items \in SeqsUpTo(AnswerItems, MaxAnswerChapters)}

Contents ==
    {<<[tag |-> "", body |-> body]>> : body \in JsonBodies}
      \cup {<<[tag |-> "", body |-> [kind |-> "invalid"]],
              [tag |-> "json", body |-> body],
              [tag |-> "", body |-> [kind |-> "invalid"]]>> :
               body \in JsonBodies}

\* lines 114-120: the part to parse, and json.loads of it
ExtractJson(content) ==
    IF Len(content) > 1 THEN content[2].body ELSE content[1].body

\* whether lines 120-145 raise for this parsed answer: json.loads on invalid
\* JSON, a key of an object indexed by "start_percent", an item without
\* the key, or a start_percent that is not a number
InterpretationRaises(chapter_data) ==
    \/ chapter_data.kind = "invalid"
    \/ chapter_data.kind = "object" /\ chapter_data.keys # << >>
    \/ /\ chapter_data.kind = "array"
       /\ \E i \in DOMAIN chapter_data.items :
             \/ "start_percent" \notin DOMAIN chapter_data.items[i]
             \/ chapter_data.items[i].start_percent[1] # "number"

\* (start_percent / 100) * metadata.duration
PercentToTime(start_percent, duration) == (start_percent * duration) \div 100

\* lines 123-147: the chapters of an answer that can be interpreted; an
\* object without keys yields no iteration, as an empty array does
ChaptersFromAnswer(metadata, transcript, chapter_data) ==
    LET items == IF chapter_data.kind = "array" THEN chapter_data.items
                 ELSE << >>
        start_time(i) == PercentToTime(items[i].start_percent[2],
                                       metadata.duration)
        end_time(i) == IF i < Len(items) THEN start_time(i + 1)
                       ELSE metadata.duration
    IN [i \in DOMAIN items |->
           NewVideoChapter(items[i].title, start_time(i), Some(end_time(i)),
                           get_transcript_for_timerange(transcript,
                                                        start_time(i),
                                                        Some(end_time(i))))]

\* the state in which run_conversion calls detect_chapters
InitChapters ==
    /\ jobs = << >>
    /\ published = << >>
    /\ lastCall = <<"init">>
    /\ calls = 0
    /\ pc = "detect_chapters"
    /\ exc = None
    /\ chapters = << >>
    /\ taskState = << >>
    /\ taskResult = << >>
    /\ permits = 0
    /\ gatherExc = None
    /\ cbCalls = << >>
    /\ \E metadata \in VideoMetadatas, transcript \in Transcripts :
          locals = [metadata |-> metadata, transcript |-> transcript,
                    content |-> None, segmentation_called |-> FALSE]
    /\ queues = << >>
    /\ observers = << >>
    /\ response = <<0, "no response">>

detectionFrame ==
    <<serviceVars, clientVars, taskState, taskResult, permits, gatherExc,
      cbCalls>>

\* detect_chapters up to its return or to the call of ai_segment_chapters
DetectChapters ==
    /\ pc = "detect_chapters"
    /\ IF locals.metadata.chapters # << >>
       THEN /\ chapters' = ChaptersFromMetadata(locals.metadata,
                                                locals.transcript)
            /\ pc' = "returned"
       ELSE IF IsShortVideo(locals.metadata)
       THEN /\ chapters' = WholeVideoChapter(
                               locals.metadata,
                               get_transcript_text(locals.transcript))
            /\ pc' = "returned"
       ELSE /\ chapters' = chapters
            /\ pc' = "ai_segment_chapters"
    /\ UNCHANGED <<exc, locals, detectionFrame>>

\* get_azure_client raises: the call is made before the try statement
GetAzureClientRaises ==
    /\ pc = "ai_segment_chapters"
    /\ exc' = Some([kind |-> "OpenAIError", text |-> "Missing credentials"])
    /\ pc' = "raised"
    /\ UNCHANGED <<chapters, locals, detectionFrame>>

\* the model answers; the answer is interpreted, or the except clause runs
CompletionReturns ==
    /\ pc = "ai_segment_chapters"
    /\ \E content \in Contents :
          /\ locals' = [locals EXCEPT !.content = Some(content),
                                      !.segmentation_called = TRUE]
          /\ chapters' =
                IF InterpretationRaises(ExtractJson(content))
                THEN WholeVideoChapter(locals.metadata,
                                       get_transcript_text(locals.transcript))
                ELSE ChaptersFromAnswer(locals.metadata, locals.transcript,
                                        ExtractJson(content))
    /\ pc' = "returned"
    /\ UNCHANGED <<exc, detectionFrame>>

\* client.chat.completions.create raises: the except clause runs
CompletionRaises ==
    /\ pc = "ai_segment_chapters"
    /\ locals' = [locals EXCEPT !.segmentation_called = TRUE]
    /\ chapters' = WholeVideoChapter(locals.metadata,
                                     get_transcript_text(locals.transcript))
    /\ pc' = "returned"
    /\ UNCHANGED <<exc, detectionFrame>>

NextChapters ==
    \/ DetectChapters
    \/ GetAzureClientRaises
    \/ CompletionReturns
    \/ CompletionRaises

SpecChapters == InitChapters /\ [][NextChapters]_vars

---------------------------------------------------------------------------
(* Properties *)

SucceededPcs ==
    {"report_creating_epub", "create_epub", "report_epub_created", "set_completed"}

\* the known job the last ProgressService call was made on, if any
LastCallIs(op) == lastCall[1] = op /\ lastCall[2] \in DOMAIN jobs

LastJob == jobs[lastCall[2]]

\* C1: once a job's status is completed or failed, no step changes its status
TerminalStatusAbsorbing ==
    [][\A id \in DOMAIN jobs :
          jobs[id].status \in TerminalStatus
              => jobs'[id].status = jobs[id].status]_vars

\* C2: the progress values written during a run (and carried by the published
\* events) never decrease, and a run that ends without an exception has
\* published progress 100 with status completed last
ProgressNonDecreasing ==
    /\ \A k \in 1..(Len(published) - 1) :
          published[k].progress <= published[k + 1].progress
    /\ (pc = "done" /\ exc = None)
          => /\ published[Len(published)].progress = 100
             /\ published[Len(published)].status = "completed"

\* C3: never more than 3 chapter operations are in flight
AtMostThreeInFlight == Cardinality(InFlight) <= 3

\* C3 witness: three operations in flight, one of them a chapter that had to
\* wait for a permit, while another chapter still waits
ThreeInFlightAfterWaiting ==
    /\ Cardinality(InFlight) = 3
    /\ \E i \in DOMAIN taskState : i > 3 /\ taskState[i] = "running"
    /\ \E i \in DOMAIN taskState : taskState[i] = "pending"

\* C4: when every chapter operation succeeded, the returned list holds the
\* chapters in input order, and the summary made for input item i is on the
\* chapter at position i and on no other
OutputOrderIsInputOrder ==
    (pc \in SucceededPcs \/ (pc = "done" /\ exc = None))
        => \A i \in 1..NumChapters :
              /\ chapters[i].title = VideoChapter(i).title
              /\ \A k \in 1..NumChapters :
                    (chapters[k].summary = generate_chapter_summary(VideoChapter(i)))
                        <=> (k = i)

\* C4 witness: gather has returned at least three chapters whose operations
\* completed in an order other than the input order
ReturnedAfterOutOfOrderCompletion ==
    /\ pc \in SucceededPcs
    /\ NumChapters >= 3
    /\ cbCalls[1][1] = 3
    /\ cbCalls[NumChapters][1] = 1

\* C5: the k-th invocation of the progress callback is made with
\* (k, total): its first argument is the number of chapters completed so far
CallbackCountsCompletions ==
    \A k \in DOMAIN cbCalls : cbCalls[k] = <<k, NumChapters>>

\* C6: a job whose status is not terminal has its progress within the
\* [start, end] of PROGRESS_STEPS for that status, and update_progress with a
\* status of PROGRESS_STEPS leaves progress within that stage's [start, end]
ProgressWithinStage ==
    /\ \A id \in DOMAIN jobs :
          jobs[id].status \notin TerminalStatus
              => /\ jobs[id].status \in DOMAIN PROGRESS_STEPS
                 /\ PROGRESS_STEPS[jobs[id].status][1] <= jobs[id].progress
                 /\ jobs[id].progress <= PROGRESS_STEPS[jobs[id].status][2]
    /\ (LastCallIs("update_progress") /\ lastCall[3] \in DOMAIN PROGRESS_STEPS)
          => /\ PROGRESS_STEPS[lastCall[3]][1] <= LastJob.progress
             /\ LastJob.progress <= PROGRESS_STEPS[lastCall[3]][2]

\* C6 witness: update_progress has put a job strictly inside a stage's range
ProgressStrictlyInsideStage ==
    /\ LastCallIs("update_progress")
    /\ LastJob.status = "generating_summaries"
    /\ LastJob.progress = 70
    /\ lastCall[5] = <<23, 30>>

\* C7 as stated: update_progress sets progress to
\* round(start + (end - start) * sub_progress)
ProgressIsRounded ==
    (LastCallIs("update_progress") /\ lastCall[3] \in DOMAIN PROGRESS_STEPS)
        => LET start == PROGRESS_STEPS[lastCall[3]][1]
               end   == PROGRESS_STEPS[lastCall[3]][2]
               num   == lastCall[5][1]
               den   == lastCall[5][2]
           IN  LastJob.progress = PyRound(start * den + (end - start) * num, den)

\* C7 as amended: update_progress sets progress to
\* start + (end - start) * sub_progress truncated to an integer, that is the
\* integer p with p <= start + (end - start) * sub_progress < p + 1
ProgressIsTruncated ==
    (LastCallIs("update_progress") /\ lastCall[3] \in DOMAIN PROGRESS_STEPS)
        => LET start == PROGRESS_STEPS[lastCall[3]][1]
               end   == PROGRESS_STEPS[lastCall[3]][2]
               num   == lastCall[5][1]
               den   == lastCall[5][2]
               p     == LastJob.progress
           IN  /\ p * den <= start * den + (end - start) * num
               /\ start * den + (end - start) * num < (p + 1) * den

\* C7 witness: generating_summaries with sub_progress 0.3 gives 52, and a
\* call where truncating and rounding differ has been made
TruncationDiffersFromRounding ==
    /\ LastCallIs("update_progress")
    /\ lastCall[3] = "generating_summaries"
    /\ lastCall[5] = <<23, 30>>
    /\ LastJob.progress = 70
    /\ \E k \in DOMAIN published :
          /\ published[k].status = "generating_summaries"
          /\ published[k].progress = 52

\* C8: set_completed on a known job leaves it completed, at progress 100,
\* with no error and with the given file path and name
SetCompletedPostcondition ==
    LastCallIs("set_completed")
        => /\ LastJob.status = "completed"
           /\ LastJob.progress = 100
           /\ LastJob.error = None
           /\ LastJob.file_path = Some(lastCall[3])
           /\ LastJob.file_name = Some(lastCall[4])

\* C9: set_error on a known job leaves it failed, with a non-empty error that
\* is the given text and the message "Error: <text>", for every call that
\* run_conversion makes
SetErrorPostcondition ==
    LastCallIs("set_error")
        => /\ LastJob.status = "failed"
           /\ LastJob.error = Some(lastCall[3])
           /\ lastCall[3] # ""
           /\ LastJob.error # Some("")
           /\ LastJob.message = "Error: " \o lastCall[3]

\* C9 witness: run_conversion has reported an exception whose own text is empty
SetErrorAfterEmptyException ==
    /\ LastCallIs("set_error")
    /\ pc = "done"
    /\ exc # None
    /\ exc[1].text = ""
    /\ exc[1].kind = "Exception"

\* C10: error is present only if the status is failed, and file_path and
\* file_name are present only if the status is completed
ResultFieldsMatchStatus ==
    \A id \in DOMAIN jobs :
        /\ jobs[id].error # None => jobs[id].status = "failed"
        /\ (jobs[id].file_path # None \/ jobs[id].file_name # None)
              => jobs[id].status = "completed"

\* the operations that end in _notify_subscribers
PublishOps == {"update_progress", "set_error", "set_completed"}

\* C11: update_progress, set_error and set_completed called with an id no job
\* has create no job, change no field and put nothing into any queue;
\* subscribe returns None for such an id and creates no queue; get_job and
\* get_job_result return None for it
UnknownJobCallsAreNoOps ==
    [][/\ (/\ lastCall'[1] \in PublishOps
           /\ calls' # calls
           /\ lastCall'[2] \notin DOMAIN jobs)
          => (jobs' = jobs /\ queues' = queues /\ published' = published)
       /\ (/\ lastCall'[1] = "subscribe"
           /\ lastCall'[2] \notin DOMAIN jobs)
          => (lastCall'[3] = None /\ jobs' = jobs /\ queues' = queues)
       /\ \A id \in JobIds \ DOMAIN jobs :
             get_job(id) = None /\ get_job_result(id) = None]_vars

\* C11 witness: a publishing call was made with an unknown id while another
\* job has a subscribed queue, and nothing was published
PublishedToUnknownJob ==
    /\ lastCall[1] \in PublishOps
    /\ lastCall[2] \notin DOMAIN jobs
    /\ \E id \in DOMAIN jobs : jobs[id].subscribers # << >>
    /\ published = << >>

\* C12: create_job called with an id that already has a job leaves the
\* existing record, its fields and its subscribed queues, as they were
CreateJobKeepsExistingRecord ==
    [][(lastCall'[1] = "create_job" /\ lastCall'[2] \in DOMAIN jobs)
          => jobs'[lastCall'[2]] = jobs[lastCall'[2]]]_vars

\* the updates published for the job job_id, in publish order
PublishedFor(job_id) == SelectSeq(published, LAMBDA u : u.job_id = job_id)

\* C13: a queue whose holder has called unsubscribe for its job receives
\* nothing from any later step and is in no job's subscriber list again;
\* unsubscribe raises nothing, and called for a queue that is not subscribed
\* or for an unknown job it changes nothing
UnsubscribedSinkGetsNothing ==
    [][/\ \A q \in DOMAIN queues :
             observers[q].state = "unsubscribed"
                 => /\ queues'[q] = queues[q]
                    /\ \A id \in DOMAIN jobs' : q \notin Range(jobs'[id].subscribers)
       /\ lastCall'[1] = "unsubscribe"
             => /\ lastCall'[4] = None
                /\ (\/ lastCall'[2] \notin DOMAIN jobs
                    \/ lastCall'[3] \notin Range(jobs[lastCall'[2]].subscribers))
                      => (jobs' = jobs /\ queues' = queues /\ published' = published)
      ]_vars

\* C13 witness: a queue received an update, its holder unsubscribed, and the
\* job published again
PublishedAfterUnsubscribe ==
    \E q \in DOMAIN queues :
        /\ observers[q].state = "unsubscribed"
        /\ Len(queues[q]) = 1
        /\ lastCall[1] \in PublishOps
        /\ lastCall[2] = observers[q].job_id
        /\ Len(PublishedFor(observers[q].job_id)) = 2

\* a is a contiguous part of b
IsInfix(a, b) ==
    \E k \in 0..(Len(b) - Len(a)) : SubSeq(b, k + 1, k + Len(a)) = a

\* C14: a call of update_progress, set_error or set_completed for a known job
\* appends one update, built from the job's new fields, to every queue that is
\* subscribed to that job when the call is made and to no other queue; every
\* queue holds updates of its job only, in the order they were published
PublishReachesEverySubscriber ==
    [][/\ (/\ lastCall'[1] \in PublishOps
           /\ calls' # calls
           /\ lastCall'[2] \in DOMAIN jobs)
          => LET job_id == lastCall'[2]
                 update == ProgressUpdate(jobs'[job_id])
             IN  /\ published' = Append(published, update)
                 /\ \A q \in DOMAIN queues :
                       queues'[q] = IF q \in Range(jobs[job_id].subscribers)
                                    THEN Append(queues[q], update)
                                    ELSE queues[q]
       /\ \A q \in DOMAIN queues' :
             IsInfix(queues'[q],
                     SelectSeq(published',
                               LAMBDA u : u.job_id = observers'[q].job_id))
      ]_vars

\* C14 witness: two jobs have one subscribed queue each; two different updates
\* were published for one job and its queue holds both, the other queue none
OnlyOwnSinkReceived ==
    \E q1, q2 \in DOMAIN queues :
        /\ observers[q1].job_id # observers[q2].job_id
        /\ \A q \in {q1, q2} :
              /\ observers[q].job_id \in DOMAIN jobs
              /\ q \in Range(jobs[observers[q].job_id].subscribers)
        /\ Len(queues[q1]) = 2
        /\ queues[q1][1] # queues[q1][2]
        /\ queues[q2] = << >>

\* C18: download_epub answers with the file only when the stored status is
\* completed and a file path is stored; for an unknown job it answers not
\* found, for a failed job it reports the failure, for any other status it
\* refuses; it changes no job
DownloadServesOnlyCompleted ==
    [][\A job_id \in JobIds, exists \in BOOLEAN :
          download_epub(job_id, exists)
              => /\ jobs' = jobs
                 /\ response'[1] = 200
                       => /\ job_id \in DOMAIN jobs
                          /\ jobs[job_id].status = "completed"
                          /\ jobs[job_id].file_path # None
                          /\ response'[2] = jobs[job_id].file_path[1]
                 /\ job_id \notin DOMAIN jobs
                       => response' = <<404, "Job not found">>
                 /\ (job_id \in DOMAIN jobs /\ jobs[job_id].status = "failed")
                       => /\ response'[1] = 400
                          /\ response'[2] \in
                                {"Conversion failed"} \cup Range(jobs[job_id].error)
                 /\ (job_id \in DOMAIN jobs /\ jobs[job_id].status \notin TerminalStatus)
                       => response' = <<400, "Conversion not complete">>
      ]_vars

\* C18 witness: the file of a completed job was served
FileServed ==
    /\ response[1] = 200
    /\ \E id \in DOMAIN jobs :
          /\ jobs[id].status = "completed"
          /\ jobs[id].file_path = Some(response[2])

\* the stages of run_conversion in the order it reports them
Stages ==
    <<"fetching_metadata", "fetching_transcript", "detecting_chapters",
      "generating_summaries", "creating_epub">>

\* the place of a status on the path: 0 before the first stage, the stage's
\* number, and one more than the last stage for completed and failed
StageRank(status) ==
    IF status \in Range(Stages)
    THEN CHOOSE k \in DOMAIN Stages : Stages[k] = status
    ELSE IF status \in TerminalStatus THEN Len(Stages) + 1 ELSE 0

\* C19: the status of the job run_conversion drives never moves to an earlier
\* stage and never leaves completed or failed; short of a failure it moves by
\* at most one stage, and it becomes completed only from creating_epub
StatusMovesForward ==
    [][(RunJobId \in DOMAIN jobs)
          => (LET old == jobs[RunJobId].status
                  new == jobs'[RunJobId].status
              IN  /\ StageRank(new) >= StageRank(old)
                  /\ (old \in TerminalStatus) => (new = old)
                  /\ (new # "failed") => (StageRank(new) <= StageRank(old) + 1)
                  /\ (new = "completed" /\ old # "completed")
                        => (old = "creating_epub"))
      ]_vars

\* C20: while no operation has failed, the first report made with a stage's
\* status has sub_progress 0, and the last report made before the status
\* leaves a stage has sub_progress 1
StageReportsFromZeroToOne ==
    [][(/\ RunJobId \in DOMAIN jobs
        /\ exc = None
        /\ gatherExc = None
        /\ calls' # calls
        /\ jobs'[RunJobId].status # jobs[RunJobId].status)
          => /\ lastCall'[1] = "update_progress" => lastCall'[5][1] = 0
             /\ jobs[RunJobId].status \in Range(Stages)
                   => /\ lastCall[1] = "update_progress"
                      /\ lastCall[5][1] = lastCall[5][2]
      ]_vars

\* the number of updates in seq whose status is completed or failed
TerminalCount(seq) ==
    Cardinality({k \in DOMAIN seq : seq[k].status \in TerminalStatus})

\* C16: a run of run_conversion publishes no completed or failed update
\* before it ends and exactly one by the time it has ended, made by
\* set_completed or by set_error; no queue ever holds two of them and a queue
\* subscribed since before the first report holds exactly one
ExactlyOneTerminalEvent ==
    /\ pc # "done" => TerminalCount(published) = 0
    /\ pc = "done"
          => /\ TerminalCount(published) = 1
             /\ \E k \in DOMAIN published :
                   published[k].status =
                       IF exc = None THEN "completed" ELSE "failed"
    /\ \A q \in DOMAIN queues :
          /\ TerminalCount(queues[q]) <= 1
          /\ (pc = "done" /\ Len(queues[q]) = Len(published))
                => TerminalCount(queues[q]) = 1

\* C16 witness: the run has failed, a chapter task that was still in flight
\* has reported after the failure, and a queue subscribed since before the
\* first report holds every update
WholeRunSinkAfterLateReport ==
    /\ pc = "done"
    /\ published[Len(published)].status \notin TerminalStatus
    /\ \E q \in DOMAIN queues : queues[q] = published

\* C15: under SpecFair every started run of run_conversion ends, with the
\* job's status completed or failed when it ends, and no exception leaves
\* run_conversion
RunEventuallyTerminal ==
    /\ [](pc # "escaped")
    /\ (pc = "start") ~> (/\ pc = "done"
                          /\ jobs[RunJobId].status \in TerminalStatus)

\* C15 witness: a run has ended after get_transcript raised
RunEndedAfterCollaboratorRaised ==
    /\ pc = "done"
    /\ exc # None
    /\ exc[1].kind = "YouTubeServiceError"
    /\ locals.title # None
    /\ jobs[RunJobId].status = "failed"

\* run_conversion has ended and every chapter task has ended
Quiescent ==
    /\ pc = "done"
    /\ \A i \in DOMAIN taskState : taskState[i] \in {"done", "raised"}

\* C17: once the run and its tasks have ended, an observer that has been sent
\* the initial state and has taken every update out of its queue is not left
\* waiting: its stream has ended
ObserverStreamEnds ==
    \A q \in DOMAIN observers :
        (Quiescent /\ queues[q] = << >>) => observers[q].state # "streaming"

\* C21: once a collaborator has raised, run_conversion is in its except
\* clause or has ended, no file was made and set_completed is not called; and
\* from the end of such a run on, get_job_result reports status failed with
\* the error text made from the exception and no file_path
FailureAbortsRun ==
    exc # None
        => /\ pc \in {"except", "done"}
           /\ locals.epub_path = None
           /\ lastCall[1] # "set_completed"
           /\ pc = "done"
                 => /\ get_job_result(RunJobId) # None
                    /\ get_job_result(RunJobId)[1].status = "failed"
                    /\ get_job_result(RunJobId)[1].error = Some(ErrorText(exc[1]))
                    /\ get_job_result(RunJobId)[1].file_path = None

\* C29: set_error on a known job leaves its progress, file_path and file_name
\* as they were, and the failed update it publishes carries that progress
SetErrorKeepsProgress ==
    [][(/\ lastCall'[1] = "set_error"
        /\ calls' # calls
        /\ lastCall'[2] \in DOMAIN jobs)
          => (LET old == jobs[lastCall'[2]]
                  new == jobs'[lastCall'[2]]
                  update == published'[Len(published')]
              IN  /\ new.progress = old.progress
                  /\ new.file_path = old.file_path
                  /\ new.file_name = old.file_name
                  /\ published' = Append(published, update)
                  /\ update.status = "failed"
                  /\ update.progress = old.progress)
      ]_vars

\* C29 witness: set_error was called for a job that had a progress above 0
\* and a stored file, and both are still there
FailedWithProgressAndFile ==
    /\ LastCallIs("set_error")
    /\ LastJob.status = "failed"
    /\ LastJob.progress > 0
    /\ LastJob.file_path # None

\* the chapter tasks waiting at the semaphore, and those not yet ended
Pending == {i \in DOMAIN taskState : taskState[i] = "pending"}

Unfinished == Pending \cup InFlight

\* C28: when at least 3 chapter tasks have not ended and no task waits while
\* a permit is free, exactly 3 operations are in flight; a task is admitted
\* only into a free slot, a task that had to wait only after another task has
\* ended; and a returning task gives its slot back in the step in which its
\* progress callback has been called
WorkConserving ==
    [][/\ (Cardinality(Unfinished) >= 3 /\ (Pending = {} \/ permits = 0))
             => Cardinality(InFlight) = 3
       /\ \A i \in DOMAIN taskState :
             /\ (taskState[i] = "pending" /\ taskState'[i] = "running")
                   => /\ permits > 0
                      /\ Cardinality(InFlight) < 3
                      /\ i > 3 => Finished # {}
             /\ (taskState[i] = "running" /\ taskState'[i] = "done")
                   => /\ permits' = permits + 1
                      /\ cbCalls' = Append(cbCalls, <<i, NumChapters>>)
      ]_vars

\* C28 witness: two chapter tasks have ended, both waiting tasks were admitted
\* and three operations are in flight
AllWaitersAdmitted ==
    /\ Cardinality(InFlight) = 3
    /\ Cardinality(Finished) = 2
    /\ Pending = {}
    /\ \E i \in Finished : taskState[i] = "raised"

\* C30: while chapter tasks exist, the free permits and the tasks inside the
\* guarded block add up to 3, whether tasks return or raise; and under
\* SpecFair, once the tasks are created every one of them ends
PermitsConserved ==
    /\ [](taskState # << >> => permits + Cardinality(InFlight) = 3)
    /\ (pc = "gather") ~> (Unfinished = {})

\* C30 witness: more chapter tasks than permits have all ended, one of the
\* first three by raising, and every permit is free again
AllTasksEndedAfterRaise ==
    /\ Len(taskState) > 3
    /\ Unfinished = {}
    /\ \E i \in 1..3 : taskState[i] = "raised"
    /\ permits = 3

\* the sinks of observers whose stream has not ended
Listening ==
    {q \in DOMAIN observers :
        observers[q].state \in {"subscribed", "streaming", "closing"}}

\* C26: an observer forwards nothing after a completed or failed update, an
\* observer whose loop has ended (after such an update or after the client
\* went away) has its sink in no job's subscriber list, and every sink in a
\* job's subscriber list belongs to an observer of that job still listening
ObserverStopsAndLeaves ==
    /\ \A q \in DOMAIN observers :
          /\ \A k \in 1..(Len(observers[q].received) - 1) :
                observers[q].received[k].status \notin TerminalStatus
          /\ observers[q].state = "ended"
                => /\ observers[q].received # << >>
                   /\ observers[q].received[Len(observers[q].received)].status
                         \in TerminalStatus
          /\ q \notin Listening
                => \A job_id \in DOMAIN jobs :
                      q \notin Range(jobs[job_id].subscribers)
    /\ \A job_id \in DOMAIN jobs :
          \A q \in Range(jobs[job_id].subscribers) :
             q \in Listening /\ observers[q].job_id = job_id

\* an observer ended after a failed update while a later update is still in
\* its queue, and its job has no subscriber left
EndedWithUpdatesQueued ==
    \E q \in DOMAIN observers :
       /\ observers[q].state = "ended"
       /\ queues[q] # << >>
       /\ jobs[observers[q].job_id].subscribers = << >>
       /\ observers[q].received[Len(observers[q].received)].status = "failed"

\* the fields of a job record that subscribe and unsubscribe do not own
JobFields(job) ==
    [job_id |-> job.job_id, status |-> job.status, progress |-> job.progress,
     message |-> job.message, error |-> job.error,
     file_path |-> job.file_path, file_name |-> job.file_name]

\* every observer of the run has unsubscribed and none is left in the list
AllObserversLeft ==
    /\ observers # << >>
    /\ \A q \in DOMAIN observers : observers[q].state = "unsubscribed"

\* C27: a step of subscribe or unsubscribe keeps the set of jobs, every
\* job's status, progress, message, error and result fields, the published
\* updates and the whole state of the running conversion; whatever the
\* observers have done, a conversion that has not ended has a step it can
\* take, and the step that ends it leaves the job completed or failed.  With
\* the fair scheduling of SpecDetach and the finitely many steps of a
\* conversion, the run therefore goes on to completed or failed
DetachLeavesRunAlone ==
    /\ [][(observers' # observers)
            => /\ DOMAIN jobs' = DOMAIN jobs
               /\ \A job_id \in DOMAIN jobs :
                     JobFields(jobs'[job_id]) = JobFields(jobs[job_id])
               /\ published' = published
               /\ pipelineVars' = pipelineVars
        ]_vars
    /\ [](pc # "done" => ENABLED NextConversion)
    /\ [][(pc # "done" /\ pc' = "done")
            => /\ RunJobId \in DOMAIN jobs'
               /\ jobs'[RunJobId].status \in TerminalStatus
        ]_vars

\* the run completed after each of its observers had received some updates
\* and unsubscribed before the last one
CompletedAfterObserversLeft ==
    /\ pc = "done"
    /\ jobs[RunJobId].status = "completed"
    /\ jobs[RunJobId].subscribers = << >>
    /\ AllObserversLeft
    /\ Len(observers) = MaxLeavers
    /\ \A q \in DOMAIN observers :
          /\ queues[q] # << >>
          /\ Len(queues[q]) < Len(published)
          /\ queues[q][Len(queues[q])].status \notin TerminalStatus

\* the texts of the segments whose index is in I, from the k-th on, in order
RECURSIVE TextsAt(_, _, _)
TextsAt(segments, I, k) ==
    IF k > Len(segments) THEN << >>
    ELSE (IF k \in I THEN <<segments[k].text>> ELSE << >>)
            \o TextsAt(segments, I, k + 1)

\* the segments a transcript text is made of: the indices of the in-order
\* selections of segments whose texts join to it
SegmentsOf(text, segments) ==
    UNION {I \in SUBSET DOMAIN segments :
              Join(TextsAt(segments, I, 1)) = text}

\* detect_chapters has returned the chapters of the video's metadata
ReturnedMetadataChapters ==
    pc = "returned" /\ locals.metadata.chapters # << >>

\* C22 as stated: of two adjacent chapters meeting at t, the earlier one's
\* transcript has only segments starting before t and the later one's only
\* segments starting at t or after
AdjacentChaptersSplitByStart ==
    ReturnedMetadataChapters
        => \A i \in 1..(Len(chapters) - 1) :
              LET t == chapters[i + 1].start_time
                  segments == locals.transcript
              IN chapters[i].end_time = Some(t)
                    => /\ \A k \in SegmentsOf(chapters[i].transcript, segments) :
                             segments[k].start < t
                       /\ \A k \in SegmentsOf(chapters[i + 1].transcript,
                                              segments) :
                             segments[k].start >= t

\* C22, amended: of two adjacent chapters meeting at t, the earlier one's
\* transcript has only segments starting before t and the later one's only
\* segments ending after t; a segment that starts before t and ends after
\* it is in both
AdjacentChaptersSplitByOverlap ==
    ReturnedMetadataChapters
        => \A i \in 1..(Len(chapters) - 1) :
              LET t == chapters[i + 1].start_time
                  segments == locals.transcript
                  earlier == SegmentsOf(chapters[i].transcript, segments)
                  later == SegmentsOf(chapters[i + 1].transcript, segments)
              IN chapters[i].end_time = Some(t)
                    => /\ \A k \in earlier : segments[k].start < t
                       /\ \A k \in later :
                             segments[k].start + segments[k].duration > t
                       /\ \A k \in DOMAIN segments :
                             (/\ segments[k].start < t
                              /\ segments[k].start + segments[k].duration > t)
                                => k \in earlier /\ k \in later

\* a segment that starts before the time two chapters meet at and ends after
\* it is in the transcripts of both
SegmentInBothChapters ==
    /\ ReturnedMetadataChapters
    /\ \E i \in 1..(Len(chapters) - 1), k \in DOMAIN locals.transcript :
          /\ locals.transcript[k].start < chapters[i + 1].start_time
          /\ locals.transcript[k].start + locals.transcript[k].duration
                > chapters[i + 1].start_time
          /\ k \in SegmentsOf(chapters[i].transcript, locals.transcript)
          /\ k \in SegmentsOf(chapters[i + 1].transcript, locals.transcript)

\* C23: for metadata with at least one chapter, whatever the duration,
\* detect_chapters does not go to the segmentation model and returns one
\* chapter per chapter of the metadata, in order, with its title, start and
\* end, whose transcript is the in-order join of exactly the segments with
\* start < chapter end and start + duration > chapter start
MetadataChaptersKept ==
    locals.metadata.chapters # << >>
        => /\ pc \in {"detect_chapters", "returned"}
           /\ locals.segmentation_called = FALSE
           /\ pc = "returned"
                 => /\ Len(chapters) = Len(locals.metadata.chapters)
                    /\ \A i \in DOMAIN chapters :
                          LET given == locals.metadata.chapters[i]
                              segments == locals.transcript
                          IN /\ chapters[i].title = given.title
                             /\ chapters[i].start_time = given.start_time
                             /\ chapters[i].end_time = given.end_time
                             /\ chapters[i].transcript =
                                   Join(TextsAt(
                                       segments,
                                       {k \in DOMAIN segments :
                                           /\ segments[k].start
                                                 < given.end_time[1]
                                           /\ segments[k].start
                                                 + segments[k].duration
                                                 > given.start_time},
                                       1))

\* the chapters of a long video's metadata were returned, one of them with
\* some but not all segments of the transcript
LongVideoChaptersFromMetadata ==
    /\ ReturnedMetadataChapters
    /\ locals.metadata.duration >= 900
    /\ Len(chapters) = MaxBoundaries
    /\ \E i \in DOMAIN chapters :
          /\ chapters[i].transcript # ""
          /\ chapters[i].transcript # get_transcript_text(locals.transcript)

\* C24: for metadata without chapters, the step of detect_chapters returns
\* the single chapter from 0 to the duration with the whole transcript, the
\* segmentation model not called, when the duration is below 15 minutes, and
\* goes to ai_segment_chapters, returning nothing itself, when it is 15
\* minutes or more
ShortVideoIsOneChapter ==
    [][(pc = "detect_chapters" /\ locals.metadata.chapters = << >>)
        => IF locals.metadata.duration < 15 * 60
           THEN /\ pc' = "returned"
                /\ locals'.segmentation_called = FALSE
                /\ chapters' =
                      <<[title |-> locals.metadata.title, start_time |-> 0,
                         end_time |-> Some(locals.metadata.duration),
                         transcript |->
                             Join(TextsAt(locals.transcript,
                                          DOMAIN locals.transcript, 1)),
                         summary |-> ""]>>
           ELSE /\ pc' = "ai_segment_chapters"
                /\ chapters' = << >>
    ]_vars

\* a video one second short of 15 minutes, without chapters, was returned as
\* one chapter with a transcript of several segments
JustShortVideoReturned ==
    /\ pc = "returned"
    /\ locals.metadata.chapters = << >>
    /\ locals.metadata.duration = 899
    /\ locals.segmentation_called = FALSE
    /\ Len(locals.transcript) > 1
    /\ Len(chapters) = 1
    /\ chapters[1].end_time = Some(899)

\* C25: detect_chapters never raises because of segmentation and always
\* returns at least one chapter; when the model was called, the result is
\* the single chapter over the whole video if the call raised or its answer
\* cannot be interpreted, and otherwise chapter i of the answer starts at
\* start_percent / 100 * duration and ends where the next starts, the last
\* at the duration
SegmentationNeverFails ==
    /\ pc # "raised"
    /\ pc = "returned" => Len(chapters) >= 1
    /\ (pc = "returned" /\ locals.segmentation_called)
          => IF \/ locals.content = None
                \/ InterpretationRaises(ExtractJson(locals.content[1]))
             THEN chapters =
                     WholeVideoChapter(locals.metadata,
                                       get_transcript_text(locals.transcript))
             ELSE LET answer == ExtractJson(locals.content[1])
                      items == IF answer.kind = "array" THEN answer.items
                               ELSE << >>
                  IN /\ Len(chapters) = Len(items)
                     /\ \A i \in DOMAIN chapters :
                           /\ chapters[i].start_time * 100
                                 = items[i].start_percent[2]
                                      * locals.metadata.duration
                           /\ chapters[i].end_time =
                                 IF i < Len(chapters)
                                 THEN Some(chapters[i + 1].start_time)
                                 ELSE Some(locals.metadata.duration)

====
